---- MODULE Spec2Model ----
(***************************************************************************)
(* Combat of IdleLands: the roster builders, the reward handler and the    *)
(* transport encoding of server/core/game/combat-helper.ts, the replay     *)
(* page client/app/combat/combat.page.ts, and the combat simulator         *)
(* (shared/combat/combat-simulator) they both drive.                       *)
(***************************************************************************)
EXTENDS Integers, Sequences, FiniteSets, TLC

(* ------------------------------------------------------------------ *)
(* Bounds of the model                                                  *)
(* ------------------------------------------------------------------ *)
\* largest roster the builders are asked for (characters of both parties)
MaxCombatants == 4
\* number of distinct seeds (Date.now() values) a combat is built with
MaxSeed == 2
\* the most items and scrolls handed out before sharing stops
MaxShares == 2

(* ------------------------------------------------------------------ *)
(* Constants of the program                                             *)
(* ------------------------------------------------------------------ *)
\* createRandomInjury: duration of the injury debuff
InjuryDuration == 180
\* the simulator's configured maximum round count
MaxRounds == 4
\* duration, in ticks, of an effect applied by a special ability
EffectDuration == 2
\* modulus and multiplier of the seeded random source
RngMod == 31
RngMul == 3

Undefined == "undefined"

Max(a, b) == IF a >= b THEN a ELSE b
Min(a, b) == IF a <= b THEN a ELSE b

\* Math.floor(x * 0.01) and Math.floor(x * 0.05) for a non-negative integer x
FloorPercent(x, pct) == (x * pct) \div 100

\* Option values: a field that can be absent from a JSON object
Absent == [present |-> FALSE, list |-> <<>>]
Present(l) == [present |-> TRUE, list |-> l]
NoChance == [present |-> FALSE, state |-> 0]

NoAnte == [defined |-> FALSE, gold |-> 0, xp |-> 0]
Ante(g, x) == [defined |-> TRUE, gold |-> g, xp |-> x]

\* a stat map; the simulator reads HP, STR, CON and AGI only
Stats(hp, str, con, agi, gold) ==
    [HP |-> hp, STR |-> str, CON |-> con, AGI |-> agi, GOLD |-> gold,
     INT |-> 40, DEX |-> 40, LUK |-> 40]
StatNames == {"HP", "STR", "CON", "AGI", "GOLD", "INT", "DEX", "LUK"}
NoDelta == [k \in StatNames |-> 0]

(* ------------------------------------------------------------------ *)
(* The world outside a combat: players, their parties and pets          *)
(* ------------------------------------------------------------------ *)
PlayerNames == {"ann", "bob", "cy"}

\* Player: gold, xp.total, level.total, currentStats, the special ability
\* of its profession, its buffs and its persistent statistics
InitialPlayers ==
    [ann |-> [gold |-> 350, xp |-> 120, level |-> 2,
              currentStats |-> Stats(200, 220, 10, 20, 0), specialName |-> "none",
              buffs |-> <<>>, statistics |-> 0],
     bob |-> [gold |-> 500, xp |-> 60, level |-> 1,
              currentStats |-> Stats(100, 120, 10, 10, 0), specialName |-> "Fortify",
              buffs |-> <<>>, statistics |-> 0],
     cy  |-> [gold |-> 700, xp |-> 200, level |-> 1,
              currentStats |-> Stats(200, 110, 10, 10, 0), specialName |-> "Weaken",
              buffs |-> <<>>, statistics |-> 0]]

\* player.$party.members, or <<>> for a player without a party
PartyConfigs ==
    { [ann |-> <<>>, bob |-> <<>>, cy |-> <<>>],
      [ann |-> <<"ann", "bob">>, bob |-> <<"ann", "bob">>, cy |-> <<>>] }

\* pet.currentStats, pet.level.total of a player's active pet
ActivePet == [currentStats |-> Stats(100, 110, 10, 30, 0), level |-> 1]

\* the fallback monster, made when no monster of the level is found: its
\* stats start empty and every stat is read as 0
FallbackMonster == [stats |-> [k \in StatNames |-> 0], specialName |-> "none"]

\* the monsters of assets.allObjectAssets.monster after stat aggregation,
\* and the fallback
MonsterProfiles ==
    { [stats |-> Stats(0, 110, 0, 10, 0), specialName |-> "Fortify"],
      [stats |-> Stats(100, 0, 300, 10, 2500), specialName |-> "none"],
      FallbackMonster }

\* calculatorHelper.calcLevelMaxXP
calcLevelMaxXP(level) == 100 + 50 * level * level

(* ------------------------------------------------------------------ *)
(* Roster construction (combat-helper.ts)                               *)
(* ------------------------------------------------------------------ *)
\* a JS object keyed 0..n-1 from the list of its values
Keyed(s) == [i \in 0..(Len(s) - 1) |-> s[i + 1]]

\* getAllPlayerPartyMembers: the names of the party's players
getAllPlayerPartyMembers(party, player) ==
    IF party[player] # <<>> THEN party[player] ELSE <<player>>

\* getPlayerAntes: 1% of the gold and 5% of the xp of each player
getPlayerAntes(pl, names) ==
    [n \in {names[i] : i \in 1..Len(names)} |->
        Ante(FloorPercent(pl[n].gold, 1), FloorPercent(pl[n].xp, 5))]

\* createCombatCharacter: combatId and combatPartyId are set by the caller
createCombatCharacter(pl, name) ==
    [combatId |-> 0, combatPartyId |-> 0,
     realName |-> name, level |-> pl[name].level,
     specialName |-> pl[name].specialName,
     stats |-> pl[name].currentStats, maxStats |-> pl[name].currentStats,
     effects |-> Absent]

\* createCombatPet: a pet has no realName
createCombatPet ==
    [combatId |-> 0, combatPartyId |-> 0,
     realName |-> Undefined, level |-> ActivePet.level,
     specialName |-> "none",
     stats |-> ActivePet.currentStats, maxStats |-> ActivePet.currentStats,
     effects |-> Absent]

\* getAllPartyCombatMembers
getAllPartyCombatMembers(pl, names) ==
    [i \in 1..Len(names) |-> createCombatCharacter(pl, names[i])]

RECURSIVE getAllPartyCombatPets(_, _)
\* getAllPartyCombatPets: joins[name] is the outcome of rngService.likelihood
getAllPartyCombatPets(names, joins) ==
    IF names = <<>> THEN <<>>
    ELSE (IF joins[Head(names)] THEN <<createCombatPet>> ELSE <<>>)
         \o getAllPartyCombatPets(Tail(names), joins)

\* createBattleMonster without the floor of 10
createBattleMonsterNoFloor(generateLevel, profile) ==
    LET boosted == [profile.stats EXCEPT
                      !.HP = Max(1, profile.stats.HP) + generateLevel * 100]
    IN [combatId |-> 0, combatPartyId |-> 0,
        realName |-> Undefined, level |-> generateLevel,
        specialName |-> profile.specialName,
        stats |-> boosted, maxStats |-> boosted,
        effects |-> Absent]

\* createBattleMonster with maxStats copied before the HP boost
createBattleMonsterMaxEarly(generateLevel, profile) ==
    LET boosted == [profile.stats EXCEPT
                      !.HP = Max(1, profile.stats.HP) + generateLevel * 100]
        floored == [k \in StatNames |-> Max(boosted[k], 10)]
    IN [combatId |-> 0, combatPartyId |-> 0,
        realName |-> Undefined, level |-> generateLevel,
        specialName |-> profile.specialName,
        stats |-> floored,
        maxStats |-> [k \in StatNames |-> Max(profile.stats[k], 10)],
        effects |-> Absent]

\* createBattleMonster: the sampled monster after the HP boost and the
\* floor of 10 on every stat, maxStats a copy of stats
createBattleMonster(generateLevel, profile) ==
    LET boosted == [profile.stats EXCEPT
                      !.HP = Max(1, profile.stats.HP) + generateLevel * 100]
        floored == [k \in StatNames |-> Max(boosted[k], 10)]
    IN [combatId |-> 0, combatPartyId |-> 0,
        realName |-> Undefined, level |-> generateLevel,
        specialName |-> profile.specialName,
        stats |-> floored, maxStats |-> floored,
        effects |-> Absent]

\* getGenericAntes
getGenericAntes(monsters) ==
    [id \in {monsters[i].combatId : i \in 1..Len(monsters)} |->
        LET m == CHOOSE x \in {monsters[i] : i \in 1..Len(monsters)} : x.combatId = id
        IN Ante(Max(m.level * 1000, m.stats.GOLD),
                FloorPercent(calcLevelMaxXP(m.level), 5))]

(* ------------------------------------------------------------------ *)
(* The combat simulator (shared/combat/combat-simulator)                *)
(* ------------------------------------------------------------------ *)
CombatAction == [Message |-> "Message", IncrementStatistic |-> "IncrementStatistic",
                 PrintStatistics |-> "PrintStatistics",
                 SummaryMessage |-> "SummaryMessage", Victory |-> "Victory"]

Event(a, d) == [action |-> a, data |-> d]

\* Seeded Random Source: the generator state a seed starts from, its
\* successor, and next(min, max) drawn from the successor state
ChanceOf(seed) == [present |-> TRUE, state |-> 1 + ((seed - 1) % (RngMod - 1))]
ChanceStep(chance) == [chance EXCEPT !.state = (chance.state * RngMul) % RngMod]
ChanceNext(chance, min, max) == min + (ChanceStep(chance).state % (max - min + 1))

Ids(rec) == DOMAIN rec.characters

RECURSIVE SumDeltas(_, _)
SumDeltas(effects, stat) ==
    IF effects = <<>> THEN 0
    ELSE Head(effects).stats[stat] + SumDeltas(Tail(effects), stat)

\* Effect Ledger: base stat plus the deltas of the active effects; HP is
\* clamped to [0, maxStats.HP]
EffectiveStat(char, stat) ==
    LET raw == char.stats[stat] + SumDeltas(char.effects.list, stat)
    IN IF stat = "HP" THEN Max(0, Min(raw, char.maxStats.HP)) ELSE raw

IsAlive(char) == EffectiveStat(char, "HP") > 0

AliveIn(rec, party) ==
    {id \in Ids(rec) : rec.characters[id].combatPartyId = party
                        /\ IsAlive(rec.characters[id])}

\* new CombatSimulator(combat): the random source is seeded from
\* combat.seed and kept on the record, every character gets an empty
\* effect list
NewSimulator(rec) ==
    [rec EXCEPT !.chance = ChanceOf(rec.seed),
                !.characters = [id \in Ids(rec) |->
                    [rec.characters[id] EXCEPT !.effects = Present(<<>>)]]]

IdleSim == [pc |-> "idle", round |-> 0, order |-> <<>>]

\* the stats the scheduler and the resolver read
RequiredStats == {"HP", "STR", "CON", "AGI"}

\* a roster check that looks at the stats only
WellFormedStatsOnly(rec) ==
    \A id \in Ids(rec) : RequiredStats \subseteq DOMAIN rec.characters[id].stats

\* the roster is not malformed: no required stat is missing, no party is
\* empty and no combatId is there twice
WellFormed(rec) ==
    /\ \A id \in Ids(rec) : RequiredStats \subseteq DOMAIN rec.characters[id].stats
    /\ \A p \in rec.parties : \E id \in Ids(rec) : rec.characters[id].combatPartyId = p
    /\ \A a, b \in Ids(rec) :
          rec.characters[a].combatId = rec.characters[b].combatId => a = b

\* beginCombat before its first round: the Orchestrator refuses to start
\* on a malformed roster
BeginCombat(rec) ==
    [IdleSim EXCEPT !.pc = IF WellFormed(rec) THEN "tick" ELSE "rejected"]

RECURSIVE AgeEffects(_)
\* one tick of one ledger: every duration decreases by 1, an effect whose
\* duration reaches 0 is removed
AgeEffects(effects) ==
    IF effects = <<>> THEN <<>>
    ELSE LET e == Head(effects)
         IN (IF e.duration - 1 <= 0 THEN <<>>
             ELSE <<[e EXCEPT !.duration = e.duration - 1]>>)
            \o AgeEffects(Tail(effects))

\* a tick that ages the ledgers of the living characters only
TickRoundLivingOnly(rec, sim) ==
    [combat |-> [rec EXCEPT !.characters = [id \in Ids(rec) |->
                    IF IsAlive(rec.characters[id])
                    THEN [rec.characters[id] EXCEPT
                            !.effects = Present(AgeEffects(rec.characters[id].effects.list))]
                    ELSE rec.characters[id]]],
     sim |-> [sim EXCEPT !.pc = "schedule", !.round = sim.round + 1],
     out |-> <<>>]

\* Effect Ledger tick, for every character, and the start of a round
TickRound(rec, sim) ==
    [combat |-> [rec EXCEPT !.characters = [id \in Ids(rec) |->
                    [rec.characters[id] EXCEPT
                        !.effects = Present(AgeEffects(rec.characters[id].effects.list))]]],
     sim |-> [sim EXCEPT !.pc = "schedule", !.round = sim.round + 1],
     out |-> <<>>]

\* the comparison with ties going to the higher combatId
BeforeTiesDescending(rec, a, b) ==
    LET sa == EffectiveStat(rec.characters[a], "AGI")
        sb == EffectiveStat(rec.characters[b], "AGI")
    IN sa > sb \/ (sa = sb /\ a > b)

\* a goes before b: higher effective AGI first, then lower combatId
Before(rec, a, b) ==
    LET sa == EffectiveStat(rec.characters[a], "AGI")
        sb == EffectiveStat(rec.characters[b], "AGI")
    IN sa > sb \/ (sa = sb /\ a < b)

RECURSIVE SortIds(_, _)
SortIds(rec, ids) ==
    IF ids = {} THEN <<>>
    ELSE LET first == CHOOSE a \in ids : \A b \in ids \ {a} : Before(rec, a, b)
         IN <<first>> \o SortIds(rec, ids \ {first})

\* a scheduler that orders every character of the record, living or not
TurnOrderEveryone(rec) ==
    IF AliveIn(rec, 0) = {} \/ AliveIn(rec, 1) = {} THEN <<>>
    ELSE SortIds(rec, Ids(rec))

\* Turn Scheduler: the living characters in turn order, or nothing when a
\* side has no living member
TurnOrder(rec) ==
    IF AliveIn(rec, 0) = {} \/ AliveIn(rec, 1) = {} THEN <<>>
    ELSE SortIds(rec, AliveIn(rec, 0) \cup AliveIn(rec, 1))

ScheduleRound(rec, sim) ==
    LET order == TurnOrder(rec)
    IN [combat |-> rec,
        sim |-> [sim EXCEPT !.pc = IF order = <<>> THEN "evaluate" ELSE "act",
                            !.order = order],
        out |-> <<>>]

RECURSIVE Ascending(_)
Ascending(ids) ==
    IF ids = {} THEN <<>>
    ELSE LET least == CHOOSE a \in ids : \A b \in ids : a <= b
         IN <<least>> \o Ascending(ids \ {least})

\* the effects of the special abilities the roster names
Fortify == [name |-> "Fortify", statistic |-> "Combat/Ticks", booster |-> TRUE,
            duration |-> EffectDuration, stats |-> [NoDelta EXCEPT !.HP = 100]]
Weaken == [name |-> "Weaken", statistic |-> "Combat/Ticks", booster |-> FALSE,
           duration |-> EffectDuration,
           stats |-> [NoDelta EXCEPT !.STR = -100, !.AGI = -10]]

AddEffect(char, effect) ==
    [char EXCEPT !.effects = Present(Append(char.effects.list, effect))]

\* a resolver that lets a defeated character take its turn
ResolveTurnDefeatedActs(rec, sim) ==
    LET actorId == Head(sim.order)
        actor == rec.characters[actorId]
        foes == Ascending(AliveIn(rec, 1 - actor.combatPartyId))
        rest == [sim EXCEPT !.order = Tail(sim.order),
                            !.pc = IF Tail(sim.order) = <<>> THEN "evaluate" ELSE "act"]
    IN IF foes = <<>>
       THEN [combat |-> rec, sim |-> rest, out |-> <<>>]
       ELSE
       LET targetId == foes[ChanceNext(rec.chance, 1, Len(foes))]
           chance1 == ChanceStep(rec.chance)
           hasSpecial == actor.specialName # "none"
           useSpecial == hasSpecial /\ ChanceNext(chance1, 0, 1) = 1
           chance2 == IF hasSpecial THEN ChanceStep(chance1) ELSE chance1
           target == rec.characters[targetId]
           damage == Max(0, EffectiveStat(actor, "STR") - EffectiveStat(target, "CON"))
           attributed == IF actor.realName # Undefined
                         THEN <<Event(CombatAction.IncrementStatistic,
                                      [statistic |-> "Combat/All/Give/Damage",
                                       value |-> damage, name |-> actor.realName])>>
                         ELSE <<>>
       IN IF ~useSpecial
          THEN [combat |-> [rec EXCEPT !.chance = chance2,
                              !.characters[targetId].stats.HP = Max(0, target.stats.HP - damage)],
                sim |-> rest,
                out |-> <<Event(CombatAction.Message,
                                <<actorId, "attacks", targetId, damage>>)>> \o attributed]
          ELSE IF actor.specialName = "Fortify"
          THEN [combat |-> [rec EXCEPT !.chance = chance2,
                              !.characters[actorId] = AddEffect(actor, Fortify)],
                sim |-> rest,
                out |-> <<Event(CombatAction.Message,
                                <<actorId, "Fortify", actorId, 0>>)>>]
          ELSE [combat |-> [rec EXCEPT !.chance = chance2,
                              !.characters[targetId] = AddEffect(target, Weaken)],
                sim |-> rest,
                out |-> <<Event(CombatAction.Message,
                                <<actorId, "Weaken", targetId, 0>>)>>]

\* Action Resolver: the turn of the character at the head of the order
ResolveTurn(rec, sim) ==
    LET actorId == Head(sim.order)
        actor == rec.characters[actorId]
        foes == Ascending(AliveIn(rec, 1 - actor.combatPartyId))
        rest == [sim EXCEPT !.order = Tail(sim.order),
                            !.pc = IF Tail(sim.order) = <<>> THEN "evaluate" ELSE "act"]
    IN IF ~IsAlive(actor) \/ foes = <<>>
       THEN [combat |-> rec, sim |-> rest, out |-> <<>>]
       ELSE
       LET targetId == foes[ChanceNext(rec.chance, 1, Len(foes))]
           chance1 == ChanceStep(rec.chance)
           hasSpecial == actor.specialName # "none"
           useSpecial == hasSpecial /\ ChanceNext(chance1, 0, 1) = 1
           chance2 == IF hasSpecial THEN ChanceStep(chance1) ELSE chance1
           target == rec.characters[targetId]
           damage == Max(0, EffectiveStat(actor, "STR") - EffectiveStat(target, "CON"))
           attributed == IF actor.realName # Undefined
                         THEN <<Event(CombatAction.IncrementStatistic,
                                      [statistic |-> "Combat/All/Give/Damage",
                                       value |-> damage, name |-> actor.realName])>>
                         ELSE <<>>
       IN IF ~useSpecial
          THEN [combat |-> [rec EXCEPT !.chance = chance2,
                              !.characters[targetId].stats.HP = Max(0, target.stats.HP - damage)],
                sim |-> rest,
                out |-> <<Event(CombatAction.Message,
                                <<actorId, "attacks", targetId, damage>>)>> \o attributed]
          ELSE IF actor.specialName = "Fortify"
          THEN [combat |-> [rec EXCEPT !.chance = chance2,
                              !.characters[actorId] = AddEffect(actor, Fortify)],
                sim |-> rest,
                out |-> <<Event(CombatAction.Message,
                                <<actorId, "Fortify", actorId, 0>>)>>]
          ELSE [combat |-> [rec EXCEPT !.chance = chance2,
                              !.characters[targetId] = AddEffect(target, Weaken)],
                sim |-> rest,
                out |-> <<Event(CombatAction.Message,
                                <<actorId, "Weaken", targetId, 0>>)>>]

NoWinner == -1

\* the evaluator naming the eliminated party as the winner
EvaluateRoundSwapped(rec, sim) ==
    LET alive0 == AliveIn(rec, 0) # {}
        alive1 == AliveIn(rec, 1) # {}
        victory(winner, tie) ==
            [combat |-> rec,
             sim |-> [sim EXCEPT !.pc = "done", !.order = <<>>],
             out |-> <<Event(CombatAction.SummaryMessage, sim.round),
                       Event(CombatAction.Victory,
                             [winningParty |-> winner, wasTie |-> tie])>>]
    IN IF alive0 /\ ~alive1 THEN victory(1, FALSE)
       ELSE IF alive1 /\ ~alive0 THEN victory(0, FALSE)
       ELSE IF ~alive0 /\ ~alive1 THEN victory(NoWinner, TRUE)
       ELSE IF sim.round >= MaxRounds THEN victory(NoWinner, TRUE)
       ELSE [combat |-> rec,
             sim |-> [sim EXCEPT !.pc = "tick"],
             out |-> <<Event(CombatAction.PrintStatistics, sim.round)>>]

\* Victory Evaluator, after the turns of a round
EvaluateRound(rec, sim) ==
    LET alive0 == AliveIn(rec, 0) # {}
        alive1 == AliveIn(rec, 1) # {}
        victory(winner, tie) ==
            [combat |-> rec,
             sim |-> [sim EXCEPT !.pc = "done", !.order = <<>>],
             out |-> <<Event(CombatAction.SummaryMessage, sim.round),
                       Event(CombatAction.Victory,
                             [winningParty |-> winner, wasTie |-> tie])>>]
    IN IF alive0 /\ ~alive1 THEN victory(0, FALSE)
       ELSE IF alive1 /\ ~alive0 THEN victory(1, FALSE)
       ELSE IF ~alive0 /\ ~alive1 THEN victory(NoWinner, TRUE)
       ELSE IF sim.round >= MaxRounds THEN victory(NoWinner, TRUE)
       ELSE [combat |-> rec,
             sim |-> [sim EXCEPT !.pc = "tick"],
             out |-> <<Event(CombatAction.PrintStatistics, sim.round)>>]

\* one step of beginCombat's loop
SimStep(rec, sim) ==
    CASE sim.pc = "tick" -> TickRound(rec, sim)
      [] sim.pc = "schedule" -> ScheduleRound(rec, sim)
      [] sim.pc = "act" -> ResolveTurn(rec, sim)
      [] sim.pc = "evaluate" -> EvaluateRound(rec, sim)

(* ------------------------------------------------------------------ *)
(* The reward handler and the server's subscriber (combat-helper.ts)    *)
(* ------------------------------------------------------------------ *)
\* playerManager.getPlayer(name) finds a player
IsPlayer(pl, name) == name \in DOMAIN pl

RECURSIVE SumAnte(_, _, _)
\* Object.values(combat.ante).reduce((prev, cur) => prev + cur[field], 0)
SumAnte(ante, ids, field) ==
    IF ids = {} THEN 0
    ELSE LET id == CHOOSE x \in ids : TRUE
         IN ante[id][field] + SumAnte(ante, ids \ {id}, field)

InjuryStats == {"STR", "INT", "LUK", "CON", "DEX", "HP", "AGI"}

\* createRandomInjury: debuffStat is the sampled stat
createRandomInjury(player, debuffStat) ==
    [name |-> "injury", statistic |-> "Character/Ticks", duration |-> InjuryDuration,
     stats |-> [NoDelta EXCEPT ![debuffStat] = -FloorPercent(player.currentStats[debuffStat], 5)]]

WinningIds(rec, winningParty) ==
    {id \in Ids(rec) : rec.characters[id].combatPartyId = winningParty}

\* handleRewards without its delete: the ante is left as it was
AnteKept(rec, winningParty) == rec.ante

\* the ante left once the entries of the winning party are deleted
AnteWithoutWinners(rec, winningParty) ==
    [id \in (DOMAIN rec.ante) \ WinningIds(rec, winningParty) |-> rec.ante[id]]

\* the characters the penalty loop of handleRewards gets past its three
\* early returns with
PenalizedIds(pl, rec, winningParty) ==
    {id \in Ids(rec) :
        /\ ~(rec.characters[id].combatPartyId # winningParty)
        /\ IsPlayer(pl, rec.characters[id].realName)
        /\ id \in DOMAIN AnteWithoutWinners(rec, winningParty)
        /\ AnteWithoutWinners(rec, winningParty)[id].defined}

\* the recipients restricted to the winners still standing
WinningSurvivors(pl, rec, winningParty) ==
    {id \in WinningIds(rec, winningParty) :
        IsPlayer(pl, rec.characters[id].realName) /\ IsAlive(rec.characters[id])}

\* the winning-party characters that are players, the recipients
WinningPlayers(pl, rec, winningParty) ==
    {id \in WinningIds(rec, winningParty) : IsPlayer(pl, rec.characters[id].realName)}

\* handleRewards; picks[id] is the stat createRandomInjury samples for id.
\* Reading .xp of an undefined ante entry throws before anything is paid.
handleRewards(pl, rec, winningParty, picks) ==
    LET winningPlayers == WinningPlayers(pl, rec, winningParty)
        ante1 == AnteWithoutWinners(rec, winningParty)
        rec1 == [rec EXCEPT !.ante = ante1]
        throws == \E id \in DOMAIN ante1 : ~ante1[id].defined
        totalXPAnte == SumAnte(ante1, DOMAIN ante1, "xp")
        totalGoldAnte == SumAnte(ante1, DOMAIN ante1, "gold")
        n == Cardinality(winningPlayers)
        paid == [p \in DOMAIN pl |->
                   IF \E id \in winningPlayers : rec.characters[id].realName = p
                   THEN [pl[p] EXCEPT !.gold = @ + (totalGoldAnte \div n),
                                      !.xp = @ + (totalXPAnte \div n)]
                   ELSE pl[p]]
        penalized == PenalizedIds(pl, rec, winningParty)
        charged == [p \in DOMAIN pl |->
                      IF \E id \in penalized : rec.characters[id].realName = p
                      THEN LET id == CHOOSE x \in penalized : rec.characters[x].realName = p
                           IN [paid[p] EXCEPT
                                 !.gold = @ - ante1[id].gold,
                                 !.xp = @ - ante1[id].xp,
                                 !.buffs = Append(@, createRandomInjury(paid[p], picks[id]))]
                      ELSE paid[p]]
    IN IF throws
       THEN [players |-> pl, combat |-> rec1, threw |-> TRUE, paidTo |-> {}, calls |-> 1]
       ELSE [players |-> charged, combat |-> rec1, threw |-> FALSE,
             paidTo |-> {rec.characters[id].realName : id \in winningPlayers},
             calls |-> 1]

\* what a subscriber that does nothing leaves behind
Untouched(pl, rec) ==
    [players |-> pl, combat |-> rec, threw |-> FALSE, paidTo |-> {}, calls |-> 0]

\* the subscriber without its return on a tie
ServerOnEventNoTieCheck(pl, rec, ev, picks) ==
    IF ev.action = CombatAction.Victory
    THEN handleRewards(pl, rec, ev.data.winningParty, picks)
    ELSE IF ev.action = CombatAction.IncrementStatistic /\ IsPlayer(pl, ev.data.name)
    THEN [Untouched(pl, rec) EXCEPT
            !.players = [pl EXCEPT ![ev.data.name].statistics = @ + ev.data.value]]
    ELSE Untouched(pl, rec)

\* the subscriber registered after beginCombat has returned: it sees no event
ServerOnEventLate(pl, rec, ev, picks) == Untouched(pl, rec)

\* the subscriber with the tie test negated
ServerOnEventTieInverted(pl, rec, ev, picks) ==
    IF ev.action = CombatAction.Victory
    THEN IF ~ev.data.wasTie
         THEN Untouched(pl, rec)
         ELSE handleRewards(pl, rec, ev.data.winningParty, picks)
    ELSE IF ev.action = CombatAction.IncrementStatistic /\ IsPlayer(pl, ev.data.name)
    THEN [Untouched(pl, rec) EXCEPT
            !.players = [pl EXCEPT ![ev.data.name].statistics = @ + ev.data.value]]
    ELSE Untouched(pl, rec)

\* the subscriber of startCombat, for one event
ServerOnEvent(pl, rec, ev, picks) ==
    IF ev.action = CombatAction.Victory
    THEN IF ev.data.wasTie
         THEN Untouched(pl, rec)
         ELSE handleRewards(pl, rec, ev.data.winningParty, picks)
    ELSE IF ev.action = CombatAction.IncrementStatistic /\ IsPlayer(pl, ev.data.name)
    THEN [Untouched(pl, rec) EXCEPT
            !.players = [pl EXCEPT ![ev.data.name].statistics = @ + ev.data.value]]
    ELSE Untouched(pl, rec)

RECURSIVE ServerDeliver(_, _, _, _)
\* the events of one step pushed to the subscriber, in order
ServerDeliver(pl, rec, out, picks) ==
    IF out = <<>> THEN Untouched(pl, rec)
    ELSE LET r == ServerOnEvent(pl, rec, Head(out), picks)
             rest == ServerDeliver(r.players, r.combat, Tail(out), picks)
         IN [rest EXCEPT !.threw = r.threw \/ rest.threw,
                         !.paidTo = r.paidTo \cup rest.paidTo,
                         !.calls = r.calls + rest.calls]

(* ------------------------------------------------------------------ *)
(* Transport (getCompressedCombat) and its decoding (ngOnInit)          *)
(* ------------------------------------------------------------------ *)
\* JSON.parse(JSON.stringify(combat)): a key whose value is undefined is
\* not written
JsonCopy(rec) ==
    [rec EXCEPT !.ante = [id \in {x \in DOMAIN rec.ante : rec.ante[x].defined} |->
                            rec.ante[id]]]

\* compress(..., { outputEncoding: 'Base64' }) and its inverse
compress(text) == [encoding |-> "Base64", lz |-> text]
Garbage == [encoding |-> "none", lz |-> "garbage"]
CanDecompress(param) == param.encoding = "Base64"
decompress(param) == param.lz

\* getCompressedCombat deleting the seed along with chance
getCompressedCombatNoSeed(rec) ==
    LET data == JsonCopy(rec)
        stripped == [data EXCEPT !.chance = NoChance, !.seed = 0,
                        !.characters = [id \in DOMAIN data.characters |->
                            [data.characters[id] EXCEPT !.effects = Absent]]]
    IN compress(stripped)

\* getCompressedCombat: chance and every effects list are deleted from a
\* copy, which is serialised and compressed
getCompressedCombat(rec) ==
    LET data == JsonCopy(rec)
        stripped == [data EXCEPT !.chance = NoChance,
                        !.characters = [id \in DOMAIN data.characters |->
                            [data.characters[id] EXCEPT !.effects = Absent]]]
    IN compress(stripped)

(* ------------------------------------------------------------------ *)
(* The guild manager (GuildManager)                                     *)
(* ------------------------------------------------------------------ *)
GuildNames == {"Night", "Dawn"}

\* the names a guild can hold: the known players and dee, who is not online
MemberNames == PlayerNames \cup {"dee"}

\* this.guilds[guildName] of a guild that is not there
NoGuild == [exists |-> FALSE, members |-> {}, motd |-> ""]

\* the guilds loadGuilds finds at init
InitialGuilds ==
    [g \in GuildNames |->
        IF g = "Night" THEN [exists |-> TRUE, members |-> {"ann", "dee"}, motd |-> ""]
        ELSE NoGuild]

\* what db.loadGuild can return for a guild another node has created
StoredGuilds == {NoGuild, [exists |-> TRUE, members |-> {"bob"}, motd |-> ""]}

GuildChannelOperation ==
    [Add |-> "Add", AddMember |-> "AddMember", RemoveMember |-> "RemoveMember",
     Update |-> "Update", GiveItem |-> "GiveItem", GiveScroll |-> "GiveScroll"]

\* the items and buff scrolls that are shared
Items == {"Blade"}
Scrolls == {"Scroll of Luck"}

getGuild(gs, name) == gs[name]

addGuild(gs, name, guild) == [gs EXCEPT ![name] = guild]

\* createGuild: the guild is loaded from the database and kept, if found
createGuild(gs, name, loaded) ==
    IF ~loaded.exists THEN gs ELSE addGuild(gs, name, loaded)

\* joinGuild: throws when the guild is not there; the member is added and
\* a known player gets the guild's name
joinGuild(gs, gn, pl, name, guild) ==
    IF ~getGuild(gs, guild).exists
    THEN [guilds |-> gs, guildName |-> gn]
    ELSE [guilds |-> [gs EXCEPT ![guild].members = @ \cup {name}],
          guildName |-> IF IsPlayer(pl, name) THEN [gn EXCEPT ![name] = guild] ELSE gn]

\* leaveGuild: throws when the guild is not there; the member is removed
\* and a known player loses its guild name
leaveGuild(gs, gn, pl, name, guild) ==
    IF ~getGuild(gs, guild).exists
    THEN [guilds |-> gs, guildName |-> gn]
    ELSE [guilds |-> [gs EXCEPT ![guild].members = @ \ {name}],
          guildName |-> IF IsPlayer(pl, name) THEN [gn EXCEPT ![name] = ""] ELSE gn]

\* updateGuild: set(guild, key, value), for the key motd
updateGuild(gs, guild, value) ==
    IF ~getGuild(gs, guild).exists THEN gs ELSE [gs EXCEPT ![guild].motd = value]

\* the event doEventFor is called with for a shared item
FindItem(itemData) == [event |-> "FindItem", fromGuild |-> TRUE, item |-> itemData]

\* shareItem: every member of the guild that is a known player gets a
\* FindItem event for a copy of the item
shareItem(rs, gs, pl, guild, itemData) ==
    IF ~getGuild(gs, guild).exists THEN rs
    ELSE [m \in DOMAIN rs |->
            IF m \in getGuild(gs, guild).members /\ IsPlayer(pl, m)
            THEN Append(rs[m], FindItem(itemData))
            ELSE rs[m]]

\* shareScroll: every member of the guild that is a known player gets the
\* scroll added to its inventory
shareScroll(inv, gs, pl, guild, scroll) ==
    IF ~getGuild(gs, guild).exists THEN inv
    ELSE [m \in DOMAIN inv |->
            IF m \in getGuild(gs, guild).members /\ IsPlayer(pl, m)
            THEN Append(inv[m], scroll)
            ELSE inv[m]]

(* ------------------------------------------------------------------ *)
(* State                                                                *)
(* ------------------------------------------------------------------ *)
VARIABLES
    players,        \* playerManager: name -> Player
    party,          \* name -> members of the player's party
    combat,         \* the server's CombatRecord
    roster,         \* the record as the roster builder handed it over
    sim,            \* the server's simulator: pc, round, turn order
    events,         \* the events the server's simulator has emitted
    victoryCombat,  \* the record as it was when Victory was emitted
    threw,          \* handleRewards threw
    paidTo,         \* the players handleRewards paid a share of the pool to
    rewardCalls,    \* how many times handleRewards was called
    page,           \* the CombatPage: its fields and where it stands
    replay,         \* this.combat of the page, the record it replays
    csim,           \* the page's simulator
    cevents,        \* the events the page's simulator has emitted
    guilds,         \* GuildManager.guilds: guild name -> Guild
    guildName,      \* player.guildName of the known players
    inventory,      \* the buff scrolls of each name's $inventory
    raised,         \* the events eventManager.doEventFor was called with
    lastOp          \* the last message delivered on Channel.Guild

vars == <<players, party, combat, roster, sim, events, victoryCombat, threw,
          paidTo, rewardCalls, page, replay, csim, cevents,
          guilds, guildName, inventory, raised, lastOp>>

serverVars == <<players, party, combat, roster, sim, events, victoryCombat, threw,
                paidTo, rewardCalls>>
clientVars == <<page, replay, csim, cevents>>
guildVars == <<guilds, guildName, inventory, raised, lastOp>>

NoCombat == [seed |-> 0, characters |-> <<>>, parties |-> {}, ante |-> <<>>,
             chance |-> NoChance]

\* a message of Channel.Guild: { operation, ...args }
Message(operation, guild, name, payload) ==
    [operation |-> operation, guildName |-> guild, name |-> name, payload |-> payload]
NoMessage == Message("none", "", "", "")

NewPage == [at |-> "created", combatData |-> Garbage, isLoaded |-> FALSE,
            combatAnte |-> [xp |-> 0, gold |-> 0],
            combatMessages |-> <<>>, summaryMessages |-> <<>>]

Init ==
    /\ players = InitialPlayers
    /\ party \in PartyConfigs
    /\ combat = NoCombat
    /\ roster = NoCombat
    /\ sim = IdleSim
    /\ events = <<>>
    /\ victoryCombat = NoCombat
    /\ threw = FALSE
    /\ paidTo = {}
    /\ rewardCalls = 0
    /\ page = NewPage
    /\ replay = NoCombat
    /\ csim = IdleSim
    /\ cevents = <<>>
    /\ guilds = InitialGuilds
    /\ guildName = [p \in PlayerNames |-> IF p = "ann" THEN "Night" ELSE ""]
    /\ inventory = [m \in MemberNames |-> <<>>]
    /\ raised = [m \in MemberNames |-> <<>>]
    /\ lastOp = NoMessage

(* ------------------------------------------------------------------ *)
(* Server: building a roster and running the combat                     *)
(* ------------------------------------------------------------------ *)
\* the forEach of the builders: ids from firstId on, the party id, and the
\* ante looked up by realName (withDefault: the `|| { xp: 0, gold: 0 }`)
\* the numbering that puts every member in party 0
EnlistOneSide(members, firstId, partyId) ==
    [i \in 1..Len(members) |->
        [members[i] EXCEPT !.combatId = firstId + i - 1, !.combatPartyId = 0]]

\* the numbering with currentId incremented before it is assigned
EnlistFromNext(members, firstId, partyId) ==
    [i \in 1..Len(members) |->
        [members[i] EXCEPT !.combatId = firstId + i, !.combatPartyId = partyId]]

Enlist(members, firstId, partyId) ==
    [i \in 1..Len(members) |->
        [members[i] EXCEPT !.combatId = firstId + i - 1, !.combatPartyId = partyId]]

AnteOf(antes, char, withDefault) ==
    IF char.realName \in DOMAIN antes THEN antes[char.realName]
    ELSE IF withDefault THEN Ante(0, 0) ELSE NoAnte

\* startCombat up to the call of beginCombat: the simulator is constructed
\* on the record and the subscriber is registered
StartCombat(rec) ==
    /\ roster' = rec
    /\ combat' = NewSimulator(rec)
    /\ sim' = BeginCombat(rec)
    /\ events' = <<>>
    /\ UNCHANGED <<players, party, victoryCombat, threw, paidTo, rewardCalls>>

createAndRunMonsterCombat(player, joins, profiles, seed) ==
    /\ sim.pc = "idle"
    /\ LET names == getAllPlayerPartyMembers(party, player)
           antes == getPlayerAntes(players, names)
           playerParty == Enlist(getAllPartyCombatMembers(players, names)
                                   \o getAllPartyCombatPets(names, joins), 0, 0)
           n == Len(playerParty)
           monsters == [i \in 1..n |->
                          [createBattleMonster(playerParty[i].level, profiles[i])
                             EXCEPT !.combatId = n + i - 1, !.combatPartyId = 1]]
           monsterAntes == getGenericAntes(monsters)
           characters == Keyed(playerParty \o monsters)
           ante == [id \in 0..(2 * n - 1) |->
                      IF id \in DOMAIN monsterAntes THEN monsterAntes[id]
                      ELSE AnteOf(antes, characters[id], TRUE)]
       IN /\ 2 * n <= MaxCombatants
          /\ DOMAIN profiles = 1..n
          /\ StartCombat([seed |-> seed, characters |-> characters,
                          parties |-> {0, 1}, ante |-> ante, chance |-> NoChance])
    /\ UNCHANGED clientVars
    /\ UNCHANGED guildVars

createAndRunPvPCombat(player, targeted, joins, seed) ==
    /\ sim.pc = "idle"
    /\ LET names == getAllPlayerPartyMembers(party, player)
           antes == getPlayerAntes(players, names)
           playerParty == Enlist(getAllPartyCombatMembers(players, names)
                                   \o getAllPartyCombatPets(names, joins), 0, 0)
           names2 == getAllPlayerPartyMembers(party, targeted)
           antes2 == getPlayerAntes(players, names2)
           playerParty2 == Enlist(getAllPartyCombatMembers(players, names2)
                                    \o getAllPartyCombatPets(names2, joins),
                                  Len(playerParty), 1)
           characters == Keyed(playerParty \o playerParty2)
           ante == [id \in DOMAIN characters |->
                      IF id < Len(playerParty)
                      THEN AnteOf(antes, characters[id], FALSE)
                      ELSE AnteOf(antes2, characters[id], FALSE)]
       IN /\ \A i \in 1..Len(names2) : \A j \in 1..Len(names) : names2[i] # names[j]
          /\ Len(playerParty) + Len(playerParty2) <= MaxCombatants
          /\ StartCombat([seed |-> seed, characters |-> characters,
                          parties |-> {0, 1}, ante |-> ante, chance |-> NoChance])
    /\ UNCHANGED clientVars
    /\ UNCHANGED guildVars

\* one step of simulator.beginCombat() on the server, its events pushed to
\* the subscriber of startCombat as they are emitted
ServerStep ==
    /\ sim.pc \in {"tick", "schedule", "act", "evaluate"}
    /\ \E r \in {SimStep(combat, sim)} :
         LET victories == {i \in 1..Len(r.out) : r.out[i].action = CombatAction.Victory}
             needPicks == IF \E i \in victories : ~r.out[i].data.wasTie
                          THEN PenalizedIds(players, r.combat,
                                   r.out[CHOOSE i \in victories : TRUE].data.winningParty)
                          ELSE {}
         IN \E picks \in [needPicks -> InjuryStats] :
              \E d \in {ServerDeliver(players, r.combat, r.out, picks)} :
                 /\ players' = d.players
                 /\ combat' = d.combat
                 /\ threw' = (threw \/ d.threw)
                 /\ paidTo' = paidTo \cup d.paidTo
                 /\ rewardCalls' = rewardCalls + d.calls
                 /\ sim' = r.sim
                 /\ events' = events \o r.out
                 /\ victoryCombat' = IF victories # {} THEN r.combat ELSE victoryCombat
    /\ UNCHANGED <<party, roster>>
    /\ UNCHANGED clientVars
    /\ UNCHANGED guildVars

(* ------------------------------------------------------------------ *)
(* Client: the combat page (combat.page.ts)                             *)
(* ------------------------------------------------------------------ *)
\* the page's subscriber never setting isLoaded
ClientOnEventNeverLoaded(pg, pl, ev) ==
    IF ev.action = CombatAction.Message
    THEN [page |-> [pg EXCEPT !.combatMessages = Append(@, [message |-> ev.data])],
          players |-> pl]
    ELSE IF ev.action = CombatAction.PrintStatistics
    THEN [page |-> [pg EXCEPT !.combatMessages =
                       Append(@, [message |-> "__summary", data |-> ev.data])],
          players |-> pl]
    ELSE IF ev.action = CombatAction.SummaryMessage
    THEN [page |-> [pg EXCEPT !.summaryMessages = Append(@, ev.data)], players |-> pl]
    ELSE [page |-> pg, players |-> pl]

\* the page's subscriber with the server's IncrementStatistic branch
ClientOnEventCounting(pg, pl, ev) ==
    IF ev.action = CombatAction.Message
    THEN [page |-> [pg EXCEPT !.combatMessages = Append(@, [message |-> ev.data])],
          players |-> pl]
    ELSE IF ev.action = CombatAction.PrintStatistics
    THEN [page |-> [pg EXCEPT !.combatMessages =
                       Append(@, [message |-> "__summary", data |-> ev.data])],
          players |-> pl]
    ELSE IF ev.action = CombatAction.SummaryMessage
    THEN [page |-> [pg EXCEPT !.summaryMessages = Append(@, ev.data)], players |-> pl]
    ELSE IF ev.action = CombatAction.Victory
    THEN [page |-> [pg EXCEPT !.isLoaded = TRUE], players |-> pl]
    ELSE IF ev.action = CombatAction.IncrementStatistic /\ IsPlayer(pl, ev.data.name)
    THEN [page |-> pg,
          players |-> [pl EXCEPT ![ev.data.name].statistics = @ + ev.data.value]]
    ELSE [page |-> pg, players |-> pl]

\* the subscriber of the page's beginCombat, for one event: what it does to
\* the page and to the players
ClientOnEvent(pg, pl, ev) ==
    IF ev.action = CombatAction.Message
    THEN [page |-> [pg EXCEPT !.combatMessages = Append(@, [message |-> ev.data])],
          players |-> pl]
    ELSE IF ev.action = CombatAction.PrintStatistics
    THEN [page |-> [pg EXCEPT !.combatMessages =
                       Append(@, [message |-> "__summary", data |-> ev.data])],
          players |-> pl]
    ELSE IF ev.action = CombatAction.SummaryMessage
    THEN [page |-> [pg EXCEPT !.summaryMessages = Append(@, ev.data)], players |-> pl]
    ELSE IF ev.action = CombatAction.Victory
    THEN [page |-> [pg EXCEPT !.isLoaded = TRUE], players |-> pl]
    ELSE [page |-> pg, players |-> pl]

RECURSIVE ClientDeliver(_, _, _)
ClientDeliver(pg, pl, out) ==
    IF out = <<>> THEN [page |-> pg, players |-> pl]
    ELSE LET r == ClientOnEvent(pg, pl, Head(out))
         IN ClientDeliver(r.page, r.players, Tail(out))

\* ngOnInit whose catch block navigates but does not return
ngOnInitNoReturn(param) ==
    /\ page.at = "created"
    /\ IF CanDecompress(param)
       THEN /\ replay' = decompress(param)
            /\ page' = [page EXCEPT !.at = "scheduled", !.combatData = param]
       ELSE /\ replay' = replay
            /\ page' = [page EXCEPT !.at = "scheduled", !.combatData = param]
    /\ UNCHANGED <<csim, cevents>>
    /\ UNCHANGED serverVars
    /\ UNCHANGED guildVars

\* ngOnInit: the route parameter is decoded, or the page leaves for /home
ngOnInit(param) ==
    /\ page.at = "created"
    /\ IF CanDecompress(param)
       THEN /\ replay' = decompress(param)
            /\ page' = [page EXCEPT !.at = "scheduled", !.combatData = param]
       ELSE /\ replay' = replay
            /\ page' = [page EXCEPT !.at = "home", !.combatData = param]
    /\ UNCHANGED <<csim, cevents>>
    /\ UNCHANGED serverVars
    /\ UNCHANGED guildVars

\* records that decode but are no roster a builder makes: party 1 without
\* a character, two characters with one combatId, a character without HP
EmptyParty(rec) ==
    [rec EXCEPT !.characters =
        [id \in {x \in Ids(rec) : rec.characters[x].combatPartyId = 0} |->
            rec.characters[id]]]
DuplicateId(rec) ==
    LET last == CHOOSE a \in Ids(rec) : \A b \in Ids(rec) : b <= a
    IN [rec EXCEPT !.characters[last].combatId = 0]
MissingStat(rec) ==
    [rec EXCEPT !.characters[0].stats =
        [k \in DOMAIN rec.characters[0].stats \ {"HP"} |-> rec.characters[0].stats[k]]]

\* the combatData parameters the page is opened with: the transport form
\* of the server's record once startCombat has returned, the same form of
\* the roster the server started from, the same form of a record that is
\* malformed, or something that does not decode
OpenPage ==
    /\ sim.pc = "done"
    /\ \E param \in {getCompressedCombat(combat), getCompressedCombat(roster),
                      getCompressedCombat(EmptyParty(roster)),
                      getCompressedCombat(DuplicateId(roster)),
                      getCompressedCombat(MissingStat(roster)), Garbage} :
          ngOnInit(param)

\* beginCombat of the page, up to the call of simulator.beginCombat()
ClientBeginCombat ==
    /\ page.at = "scheduled"
    /\ page' = [page EXCEPT !.at = "replaying",
                   !.combatAnte = [xp |-> SumAnte(replay.ante, DOMAIN replay.ante, "xp"),
                                   gold |-> SumAnte(replay.ante, DOMAIN replay.ante, "gold")]]
    /\ replay' = NewSimulator(replay)
    /\ csim' = BeginCombat(replay)
    /\ cevents' = <<>>
    /\ UNCHANGED serverVars
    /\ UNCHANGED guildVars

\* one step of simulator.beginCombat() on the page
ClientStep ==
    /\ page.at = "replaying"
    /\ csim.pc \in {"tick", "schedule", "act", "evaluate"}
    /\ \E r \in {SimStep(replay, csim)} :
         \E d \in {ClientDeliver(page, players, r.out)} :
            /\ replay' = r.combat
            /\ csim' = r.sim
            /\ cevents' = cevents \o r.out
            /\ page' = d.page
            /\ players' = d.players
    /\ UNCHANGED <<party, combat, roster, sim, events, victoryCombat, threw,
                   paidTo, rewardCalls>>
    /\ UNCHANGED guildVars

Seeds == 1..MaxSeed

Next ==
    \/ \E player \in PlayerNames, joins \in [PlayerNames -> BOOLEAN], seed \in Seeds :
         \E n \in 1..MaxCombatants : \E profiles \in [1..n -> MonsterProfiles] :
            createAndRunMonsterCombat(player, joins, profiles, seed)
    \/ \E player \in PlayerNames, targeted \in PlayerNames,
          joins \in [PlayerNames -> BOOLEAN], seed \in Seeds :
            createAndRunPvPCombat(player, targeted, joins, seed)
    \/ ServerStep
    \/ OpenPage
    \/ ClientBeginCombat
    \/ ClientStep

Spec == Init /\ [][Next]_vars

\* beginCombat is one synchronous loop and the timeout of ngOnInit fires:
\* a run that has started keeps stepping
FairSpec ==
    Spec /\ WF_vars(ServerStep) /\ WF_vars(ClientBeginCombat) /\ WF_vars(ClientStep)

\* the callback of subscribeToChannel(Channel.Guild, ...), one case of
\* its switch at a time
OnAdd(guild, loaded) ==
    /\ guilds' = createGuild(guilds, guild, loaded)
    /\ lastOp' = Message(GuildChannelOperation.Add, guild, "", "")
    /\ UNCHANGED <<guildName, inventory, raised>>
    /\ UNCHANGED <<serverVars, clientVars>>

OnAddMember(name, guild) ==
    /\ \E r \in {joinGuild(guilds, guildName, players, name, guild)} :
          guilds' = r.guilds /\ guildName' = r.guildName
    /\ lastOp' = Message(GuildChannelOperation.AddMember, guild, name, "")
    /\ UNCHANGED <<inventory, raised>>
    /\ UNCHANGED <<serverVars, clientVars>>

OnRemoveMember(name, guild) ==
    /\ \E r \in {leaveGuild(guilds, guildName, players, name, guild)} :
          guilds' = r.guilds /\ guildName' = r.guildName
    /\ lastOp' = Message(GuildChannelOperation.RemoveMember, guild, name, "")
    /\ UNCHANGED <<inventory, raised>>
    /\ UNCHANGED <<serverVars, clientVars>>

OnUpdate(guild, value) ==
    /\ guilds' = updateGuild(guilds, guild, value)
    /\ lastOp' = Message(GuildChannelOperation.Update, guild, "", value)
    /\ UNCHANGED <<guildName, inventory, raised>>
    /\ UNCHANGED <<serverVars, clientVars>>

RECURSIVE Handed(_)
\* how many events and scrolls the names of a set have been given
Handed(names) ==
    IF names = {} THEN 0
    ELSE LET m == CHOOSE x \in names : TRUE
         IN Len(raised[m]) + Len(inventory[m]) + Handed(names \ {m})

\* fewer than MaxShares things have been handed out
RoomToShare == Handed(MemberNames) < MaxShares

OnGiveItem(guild, item) ==
    /\ RoomToShare
    /\ raised' = shareItem(raised, guilds, players, guild, item)
    /\ lastOp' = Message(GuildChannelOperation.GiveItem, guild, "", item)
    /\ UNCHANGED <<guilds, guildName, inventory>>
    /\ UNCHANGED <<serverVars, clientVars>>

\* case GiveScroll: this.shareItem(args.guildName, args.scroll)
OnGiveScroll(guild, scroll) ==
    /\ RoomToShare
    /\ raised' = shareItem(raised, guilds, players, guild, scroll)
    /\ lastOp' = Message(GuildChannelOperation.GiveScroll, guild, "", scroll)
    /\ UNCHANGED <<guilds, guildName, inventory>>
    /\ UNCHANGED <<serverVars, clientVars>>

\* the names AddMember and RemoveMember are sent for
JoinNames == {"bob", "dee"}

GuildNext ==
    \/ \E guild \in GuildNames, loaded \in StoredGuilds : OnAdd(guild, loaded)
    \/ \E name \in JoinNames, guild \in GuildNames : OnAddMember(name, guild)
    \/ \E name \in JoinNames, guild \in GuildNames : OnRemoveMember(name, guild)
    \/ \E guild \in GuildNames, value \in {"raid at nine"} : OnUpdate(guild, value)
    \/ \E guild \in GuildNames, item \in Items : OnGiveItem(guild, item)
    \/ \E guild \in GuildNames, scroll \in Scrolls : OnGiveScroll(guild, scroll)

GuildSpec == Init /\ [][GuildNext]_vars

(* ------------------------------------------------------------------ *)
(* Vocabulary of the properties                                         *)
(* ------------------------------------------------------------------ *)
Running == {"tick", "schedule", "act", "evaluate"}

\* the data of the Victory event that ended a run
Outcome(evs) == evs[Len(evs)].data

ServerDone == sim.pc = "done"
ServerWon == ServerDone /\ ~Outcome(events).wasTie
ServerTied == ServerDone /\ Outcome(events).wasTie
ClientDone == page.at = "replaying" /\ csim.pc = "done"

\* the characters of a record that are players, by party
PlayersOf(rec, partyId) ==
    {id \in Ids(rec) : rec.characters[id].combatPartyId = partyId
                        /\ IsPlayer(players, rec.characters[id].realName)}

NameOf(rec, id) == rec.characters[id].realName

Messages(evs) == {i \in 1..Len(evs) : evs[i].action = CombatAction.Message}

\* the page was opened on the roster the server started from
SameRoster == page.combatData = getCompressedCombat(roster)
\* the page was opened on the record startCombat returned
PostCombat == page.combatData = getCompressedCombat(combat)

LosingParty == 1 - Outcome(events).winningParty

(* ------------------------------------------------------------------ *)
(* Properties                                                           *)
(* ------------------------------------------------------------------ *)

Decoded == decompress(page.combatData)

\* a record with a missing required stat, an empty party or a duplicate
\* combatId
Malformed(rec) ==
    \/ \E id \in Ids(rec) : \E stat \in RequiredStats :
          stat \notin DOMAIN rec.characters[id].stats
    \/ \E p \in rec.parties :
          {id \in Ids(rec) : rec.characters[id].combatPartyId = p} = {}
    \/ \E a, b \in Ids(rec) :
          a # b /\ rec.characters[a].combatId = rec.characters[b].combatId

\* C2, as stated: no run goes past the round cap, a run that has started
\* ends with a Victory event, and a page whose parameter decoded gets
\* isLoaded.
C2_Termination ==
    /\ [](sim.round <= MaxRounds /\ csim.round <= MaxRounds)
    /\ [](ServerDone => events[Len(events)].action = CombatAction.Victory)
    /\ ((sim.pc \in Running) ~> ServerDone)
    /\ ((page.at = "scheduled") ~> (page.isLoaded /\ ClientDone))

\* C2, amended: no run goes past the round cap, a run that has started
\* ends with a Victory event, and a page whose parameter decoded to a
\* well-formed roster gets isLoaded; a page whose parameter decoded to a
\* malformed roster never does.
C2_TerminationWellFormed ==
    /\ [](sim.round <= MaxRounds /\ csim.round <= MaxRounds)
    /\ [](ServerDone => events[Len(events)].action = CombatAction.Victory)
    /\ ((sim.pc \in Running) ~> ServerDone)
    /\ ((csim.pc \in Running) ~> ClientDone)
    /\ ((page.at = "scheduled" /\ ~Malformed(replay)) ~> (page.isLoaded /\ ClientDone))
    /\ []((page.at \in {"scheduled", "replaying"} /\ Malformed(Decoded))
             => ~page.isLoaded)

C2_Witness ==
    /\ ClientDone /\ page.isLoaded
    /\ csim.round = MaxRounds
    /\ ServerDone /\ sim.round = MaxRounds

\* C3: after a non-tie Victory every losing player has lost exactly its
\* ante and carries exactly one injury of 180 ticks; no winning player is
\* charged or injured.
C3_LosersPenalized ==
    ServerWon =>
        /\ \A id \in PlayersOf(combat, LosingParty) :
              LET p == players[NameOf(combat, id)]
                  p0 == InitialPlayers[NameOf(combat, id)]
              IN /\ p.gold = p0.gold - roster.ante[id].gold
                 /\ p.xp = p0.xp - roster.ante[id].xp
                 /\ Len(p.buffs) = 1
                 /\ p.buffs[1].duration = InjuryDuration
        /\ \A id \in PlayersOf(combat, Outcome(events).winningParty) :
              LET p == players[NameOf(combat, id)]
                  p0 == InitialPlayers[NameOf(combat, id)]
              IN p.buffs = <<>> /\ p.gold >= p0.gold /\ p.xp >= p0.xp

\* C4 as claimed, on the runs where the reward handler completes: the
\* recipients are exactly the winning players whose HP is above 0.
C4_SurvivingWinnersOnly ==
    (ServerWon /\ ~threw) =>
        paidTo = {NameOf(combat, id) : id \in
                    {w \in PlayersOf(combat, Outcome(events).winningParty) :
                        IsAlive(combat.characters[w])}}

\* C4 amended: the recipients are exactly the winning-party characters
\* that are players, whatever their HP; nobody is paid when the handler
\* throws.
C4_AllWinningPlayers ==
    ServerWon =>
        paidTo = IF threw THEN {}
                 ELSE {NameOf(combat, id) : id \in
                         PlayersOf(combat, Outcome(events).winningParty)}

C4_Witness ==
    /\ ServerWon /\ ~threw
    /\ \E id \in PlayersOf(combat, Outcome(events).winningParty) :
          /\ ~IsAlive(combat.characters[id])
          /\ NameOf(combat, id) \in paidTo
          /\ players[NameOf(combat, id)].gold > InitialPlayers[NameOf(combat, id)].gold

\* C5: on a non-tie Victory with n >= 1 winning players every losing
\* combatant has an ante, the pool is their sum, each winning player gains
\* floor(pool / n), and the unclaimed remainder is smaller than n.
C5_Conservation ==
    (ServerWon /\ PlayersOf(combat, Outcome(events).winningParty) # {}) =>
        LET winners == PlayersOf(combat, Outcome(events).winningParty)
            losers == {id \in Ids(roster) :
                         roster.characters[id].combatPartyId = LosingParty}
            n == Cardinality(winners)
            poolGold == SumAnte(roster.ante, losers, "gold")
            poolXP == SumAnte(roster.ante, losers, "xp")
        IN /\ \A id \in losers : roster.ante[id].defined
           /\ \A id \in winners :
                 LET p == players[NameOf(combat, id)]
                     p0 == InitialPlayers[NameOf(combat, id)]
                 IN /\ p.gold = p0.gold + (poolGold \div n)
                    /\ p.xp = p0.xp + (poolXP \div n)
           /\ poolGold - n * (poolGold \div n) < n
           /\ poolXP - n * (poolXP \div n) < n

\* C6: on a tie handleRewards is not called: no gold, xp or buff of any
\* player changes and the ante of the record is the ante it started with.
C6_TieNoRewards ==
    ServerTied =>
        /\ rewardCalls = 0
        /\ paidTo = {}
        /\ ~threw
        /\ \A p \in PlayerNames :
              /\ players[p].gold = InitialPlayers[p].gold
              /\ players[p].xp = InitialPlayers[p].xp
              /\ players[p].buffs = InitialPlayers[p].buffs
        /\ combat.ante = roster.ante

C6_Witness ==
    /\ ServerTied
    /\ PlayersOf(combat, 0) # {}
    /\ \E id \in DOMAIN roster.ante : roster.ante[id].gold > 0
    /\ Cardinality(Messages(events)) > 0

\* C7: the replay of the record startCombat returned ends with the
\* server's winner, has the ante of the server's run (same keys, same
\* totals) and emits as many Message events.
C7_RoundTrip ==
    (ClientDone /\ ServerDone /\ PostCombat) =>
        /\ Outcome(cevents) = Outcome(events)
        /\ DOMAIN replay.ante = DOMAIN roster.ante
        /\ page.combatAnte.gold = SumAnte(roster.ante, DOMAIN roster.ante, "gold")
        /\ page.combatAnte.xp = SumAnte(roster.ante, DOMAIN roster.ante, "xp")
        /\ Cardinality(Messages(cevents)) = Cardinality(Messages(events))

\* C8: a step of the page (decoding, beginCombat, any event delivered to
\* its subscriber) changes no player and nothing the reward handler owns.
C8_ReplayNoSideEffects ==
    [][(page' # page \/ cevents' # cevents \/ csim' # csim \/ replay' # replay)
         => /\ players' = players
            /\ paidTo' = paidTo
            /\ rewardCalls' = rewardCalls
            /\ combat' = combat]_vars

C8_Witness ==
    /\ ClientDone /\ page.isLoaded
    /\ \E i \in 1..Len(cevents) :
          /\ cevents[i].action = CombatAction.IncrementStatistic
          /\ IsPlayer(players, cevents[i].data.name)
          /\ cevents[i].data.value > 0

\* C9 as claimed: the record startCombat returns is the record as it was
\* when Victory was emitted.
C9_Frozen == ServerDone => combat = victoryCombat

\* C9 amended: after Victory the record is the record as it was emitted,
\* except that on a non-tie Victory the reward handler has deleted the
\* ante entries of the winning party.
C9_FrozenButAnte ==
    ServerDone =>
        combat = [victoryCombat EXCEPT !.ante =
                    IF Outcome(events).wasTie THEN victoryCombat.ante
                    ELSE [id \in {x \in DOMAIN victoryCombat.ante :
                                     victoryCombat.characters[x].combatPartyId
                                        # Outcome(events).winningParty} |->
                            victoryCombat.ante[id]]]

C9_Witness ==
    /\ ServerWon
    /\ DOMAIN combat.ante # DOMAIN victoryCombat.ante
    /\ combat.characters = victoryCombat.characters

\* C10: what the evaluator emits for the record it looked at, on the
\* server and on the page: one party eliminated gives the other as the
\* winner, both eliminated gives a tie, a winner is never named while both
\* parties or no member of the winner live, and a round follows only
\* while both parties live.
Verdict(rec, v) ==
    LET alive0 == AliveIn(rec, 0) # {}
        alive1 == AliveIn(rec, 1) # {}
    IN /\ (alive0 /\ ~alive1) => (v.winningParty = 0 /\ ~v.wasTie)
       /\ (alive1 /\ ~alive0) => (v.winningParty = 1 /\ ~v.wasTie)
       /\ (~alive0 /\ ~alive1) => v.wasTie
       /\ ~v.wasTie => /\ ~(alive0 /\ alive1)
                        /\ v.winningParty \in {0, 1}
                        /\ AliveIn(rec, v.winningParty) # {}

C10_VictoryEvaluation ==
    /\ ServerDone => Verdict(victoryCombat, Outcome(events))
    /\ ClientDone => Verdict(replay, Outcome(cevents))
    /\ (sim.pc = "tick" /\ sim.round > 0) =>
          (AliveIn(combat, 0) # {} /\ AliveIn(combat, 1) # {})
    /\ (csim.pc = "tick" /\ csim.round > 0) =>
          (AliveIn(replay, 0) # {} /\ AliveIn(replay, 1) # {})

C10_Witness ==
    /\ ServerTied
    /\ AliveIn(victoryCombat, 0) = {} /\ AliveIn(victoryCombat, 1) = {}
    /\ sim.round <= MaxRounds - 1

\* both parties of a record still have a living member
BothSidesAlive(rec) == AliveIn(rec, 0) # {} /\ AliveIn(rec, 1) # {}

\* C11: a run in which both parties still have a living member ends only
\* at the round cap, with a Victory whose wasTie is true and no winner; no
\* round is started past the cap; and that tie reaches handleRewards as
\* little as an elimination tie does: no call, no gold, xp or buff changed,
\* the ante untouched. The replay ends in the same tie.
C11_RoundCapTie ==
    /\ sim.pc \in Running =>
          sim.round + (IF sim.pc = "tick" THEN 1 ELSE 0) <= MaxRounds
    /\ (ServerDone /\ BothSidesAlive(combat)) =>
          /\ sim.round = MaxRounds
          /\ Outcome(events) = [winningParty |-> NoWinner, wasTie |-> TRUE]
          /\ rewardCalls = 0 /\ paidTo = {} /\ ~threw
          /\ \A p \in PlayerNames :
                /\ players[p].gold = InitialPlayers[p].gold
                /\ players[p].xp = InitialPlayers[p].xp
                /\ players[p].buffs = InitialPlayers[p].buffs
          /\ combat.ante = roster.ante
    /\ (ClientDone /\ BothSidesAlive(replay)) =>
          /\ csim.round = MaxRounds
          /\ Outcome(cevents).wasTie

C11_Witness ==
    /\ ServerDone /\ BothSidesAlive(combat)
    /\ sim.round = MaxRounds
    /\ PlayersOf(combat, 0) # {} /\ PlayersOf(combat, 1) # {}
    /\ \E id \in DOMAIN roster.ante :
          roster.ante[id].defined /\ roster.ante[id].gold > 0
    /\ Cardinality(Messages(events)) >= MaxRounds

\* the members of a sequence
Range(seq) == {seq[i] : i \in 1..Len(seq)}

\* one step of a run keeps every defeated character of `before` defeated
\* in `after`, and a scheduling step puts no defeated character in the order
StaysDefeated(before, after, pcBefore, orderAfter) ==
    /\ \A id \in Ids(before) :
          ~IsAlive(before.characters[id]) =>
              /\ EffectiveStat(after.characters[id], "HP") = 0
              /\ ~IsAlive(after.characters[id])
    /\ pcBefore = "schedule" =>
          \A id \in Range(orderAfter) : IsAlive(before.characters[id])

Outliving(effects) == SelectSeq(effects, LAMBDA e : e.duration > 1)

\* one step of a run, seen from the ledgers: a tick takes exactly 1 from
\* every duration of every character and drops the effects that reach 0,
\* whose deltas leave the effective stats; any other step keeps every
\* effect and its duration and may add effects with the full duration
LedgerStep(before, after, pcBefore) ==
    \A id \in Ids(before) :
       LET old == before.characters[id].effects.list
           new == after.characters[id].effects.list
           kept == Outliving(old)
       IN IF pcBefore = "tick"
          THEN /\ Len(new) = Len(kept)
               /\ \A i \in 1..Len(kept) :
                     new[i] = [kept[i] EXCEPT !.duration = kept[i].duration - 1]
               /\ \A stat \in StatNames \ {"HP"} :
                     EffectiveStat(after.characters[id], stat)
                        = before.characters[id].stats[stat] + SumDeltas(kept, stat)
          ELSE /\ Len(new) >= Len(old)
               /\ \A i \in 1..Len(old) : new[i] = old[i]
               /\ \A i \in (Len(old) + 1)..Len(new) : new[i].duration = EffectDuration

\* C13: every tick decreases the duration of every effect of every
\* character, living or defeated, by exactly 1 and removes the effects
\* whose duration reaches 0, and their deltas with them; between ticks no
\* duration changes, and an effect applied during a round enters with its
\* full duration, so it first ages on the next round's tick and is gone on
\* the tick that is its duration-th.
C13_EffectExpiry ==
    [][/\ sim.pc \in Running => LedgerStep(combat, combat', sim.pc)
       /\ (page.at = "replaying" /\ csim.pc \in Running) =>
             LedgerStep(replay, replay', csim.pc)
       /\ \A id \in Ids(combat) :
             combat.characters[id].effects.present =>
                \A i \in 1..Len(combat.characters[id].effects.list) :
                   combat.characters[id].effects.list[i].duration \in 1..EffectDuration]_vars

\* a round has ended and the next tick is due: a defeated character still
\* carries an effect that has aged once and expires on this tick, and a
\* living character carries one applied during the round, not yet aged
C13_Witness ==
    /\ sim.pc = "tick" /\ sim.round >= 2
    /\ \E id \in Ids(combat) :
          /\ ~IsAlive(combat.characters[id])
          /\ \E i \in 1..Len(combat.characters[id].effects.list) :
                combat.characters[id].effects.list[i].duration = 1
    /\ \E id \in Ids(combat) :
          /\ IsAlive(combat.characters[id])
          /\ \E i \in 1..Len(combat.characters[id].effects.list) :
                combat.characters[id].effects.list[i].duration = EffectDuration

\* base agility plus the agility deltas of the active effects
Speed(rec, id) ==
    rec.characters[id].stats.AGI + SumDeltas(rec.characters[id].effects.list, "AGI")

\* order is the turn order the record calls for at the start of a round
OrderedAsClaimed(rec, order) ==
    LET living == AliveIn(rec, 0) \cup AliveIn(rec, 1)
    IN IF AliveIn(rec, 0) = {} \/ AliveIn(rec, 1) = {}
       THEN order = <<>>
       ELSE /\ Range(order) = living
            /\ Len(order) = Cardinality(living)
            /\ \A i, j \in 1..Len(order) :
                  i < j => \/ Speed(rec, order[i]) > Speed(rec, order[j])
                           \/ /\ Speed(rec, order[i]) = Speed(rec, order[j])
                              /\ order[i] < order[j]

\* C14: every round is scheduled after its tick, and the order a
\* scheduling step computes holds exactly the characters living at that
\* moment, each once, by descending effective agility and, among equals, by
\* ascending combatId; it is empty when a side has no living member.
C14_TurnOrder ==
    [][/\ sim.pc \in Running =>
             /\ sim.pc = "tick" => sim'.pc = "schedule"
             /\ sim.pc = "schedule" => OrderedAsClaimed(combat, sim'.order)
       /\ (page.at = "replaying" /\ csim.pc \in Running) =>
             /\ csim.pc = "tick" => csim'.pc = "schedule"
             /\ csim.pc = "schedule" => OrderedAsClaimed(replay, csim'.order)]_vars

\* a round past the first has just been scheduled: three or more
\* characters, two of them of equal speed next to each other, one of them
\* slowed by an effect
C14_Witness ==
    /\ sim.pc = "act" /\ sim.round >= 2
    /\ Range(sim.order) = AliveIn(combat, 0) \cup AliveIn(combat, 1)
    /\ Len(sim.order) >= 3
    /\ \E i \in 1..(Len(sim.order) - 1) :
          Speed(combat, sim.order[i]) = Speed(combat, sim.order[i + 1])
    /\ \E id \in Range(sim.order) :
          Speed(combat, id) # combat.characters[id].stats.AGI

\* the keys of rec.characters and of rec.ante are 0..n-1 for the n
\* combatants and every character sits under its own combatId
DenseIds(rec) ==
    LET n == Cardinality(DOMAIN rec.characters)
    IN /\ DOMAIN rec.characters = 0..(n - 1)
       /\ DOMAIN rec.ante = 0..(n - 1)
       /\ \A id \in DOMAIN rec.characters : rec.characters[id].combatId = id
       /\ \A a, b \in DOMAIN rec.characters :
             rec.characters[a].combatId = rec.characters[b].combatId => a = b

\* C15: the record either builder hands to startCombat has the keys
\* 0..n-1 in characters and in ante, every character under its own
\* combatId and no combatId twice; while the combat runs the record keeps
\* those keys and every character keeps its combatId, and after it the
\* characters still do.
C15_DenseIds ==
    roster # NoCombat =>
       /\ Cardinality(DOMAIN roster.characters) >= 2
       /\ DenseIds(roster)
       /\ sim.pc \in Running => DenseIds(combat)
       /\ DOMAIN combat.characters = DOMAIN roster.characters
       /\ \A id \in DOMAIN combat.characters :
             combat.characters[id].combatId = roster.characters[id].combatId

\* a PvP combat of three or more with a pet, whose ante entry is the
\* undefined the builder stored under its key, some rounds in
C15_Witness ==
    /\ sim.pc \in Running /\ sim.round >= 2
    /\ Cardinality(DOMAIN roster.characters) >= 3
    /\ PlayersOf(roster, 1) # {}
    /\ \E id \in DOMAIN roster.ante : ~roster.ante[id].defined

\* the characters of a party
MembersOf(rec, partyId) ==
    {id \in Ids(rec) : rec.characters[id].combatPartyId = partyId}

\* the record has the parties 0 and 1, every character in one of them and
\* somebody in each
TwoSides(rec) ==
    /\ rec.parties = {0, 1}
    /\ \A id \in Ids(rec) : rec.characters[id].combatPartyId \in {0, 1}
    /\ MembersOf(rec, 0) # {} /\ MembersOf(rec, 1) # {}

\* C16: the record handed to the simulator has exactly the parties 0 and
\* 1, every character belongs to one of them and neither is empty, from
\* the start of the combat to its end; in a monster combat (no player in
\* party 1) party 1 holds no player or pet name and exactly as many
\* monsters as party 0 holds players and joined pets.
C16_TwoSides ==
    roster # NoCombat =>
       /\ TwoSides(roster)
       /\ TwoSides(combat)
       /\ \A id \in Ids(combat) :
             combat.characters[id].combatPartyId = roster.characters[id].combatPartyId
       /\ PlayersOf(roster, 1) = {} =>
             /\ Cardinality(MembersOf(roster, 1)) = Cardinality(MembersOf(roster, 0))
             /\ PlayersOf(roster, 0) # {}

\* a monster combat of a party with a joined pet: two monsters
C16_Witness ==
    /\ sim.pc \in Running
    /\ PlayersOf(roster, 1) = {}
    /\ Cardinality(MembersOf(roster, 1)) = 2
    /\ Cardinality(PlayersOf(roster, 0)) = 1

\* C17: a roster with a missing required stat, an empty party or a
\* duplicate combatId is rejected by beginCombat before any round: the run
\* stays at round 0, no event is emitted, the record stays as the
\* simulator was constructed on it, the page shows nothing and no reward
\* or statistic is applied. The builders of the server hand no such roster
\* to startCombat; the page decodes them from its route parameter.
C17_MalformedRejected ==
    /\ roster # NoCombat => (~Malformed(roster) /\ sim.pc # "rejected")
    /\ (page.at = "replaying" /\ Malformed(Decoded)) =>
          /\ csim.pc = "rejected" /\ csim.round = 0 /\ csim.order = <<>>
          /\ cevents = <<>>
          /\ replay = NewSimulator(Decoded)
          /\ page.combatMessages = <<>> /\ page.summaryMessages = <<>>
          /\ ~page.isLoaded
    /\ (page.at = "replaying" /\ ~Malformed(Decoded)) => csim.pc # "rejected"

\* the page was opened on a record whose party 1 has no character, taken
\* from a roster the server fought a combat with
C17_Witness ==
    /\ page.at = "replaying" /\ csim.pc = "rejected"
    /\ MembersOf(replay, 1) = {} /\ MembersOf(replay, 0) # {}
    /\ Cardinality(Messages(events)) > 0

\* the stored HP and the effective HP of every character of the record
\* are between 0 and the character's maxStats.HP
HPInBounds(rec) ==
    \A id \in Ids(rec) :
       LET char == rec.characters[id]
       IN /\ 0 <= char.stats.HP /\ char.stats.HP <= char.maxStats.HP
          /\ 0 <= EffectiveStat(char, "HP")
          /\ EffectiveStat(char, "HP") <= char.maxStats.HP

Victories(evs) == {i \in 1..Len(evs) : evs[i].action = CombatAction.Victory}

\* a run that has not ended has emitted no Victory; one that has ended
\* has emitted exactly one, as its last event
OneVictory(pc, evs) ==
    /\ Cardinality(Victories(evs)) <= 1
    /\ pc \in Running => Victories(evs) = {}
    /\ pc = "done" => Victories(evs) = {Len(evs)}

Added(evsBefore, evsAfter) == SubSeq(evsAfter, Len(evsBefore) + 1, Len(evsAfter))

\* one turn of the resolver: the character at the head of the order does
\* nothing when it is defeated or has no living opponent, and otherwise
\* tells of one action, aimed at itself or at a living opponent
TurnAsClaimed(before, after, simBefore, evsBefore, evsAfter) ==
    simBefore.pc = "act" =>
       LET actorId == Head(simBefore.order)
           actor == before.characters[actorId]
           opponents == AliveIn(before, 1 - actor.combatPartyId)
           added == Added(evsBefore, evsAfter)
       IN IF ~IsAlive(actor) \/ opponents = {}
          THEN after = before /\ added = <<>>
          ELSE /\ Len(added) >= 1
               /\ added[1].action = CombatAction.Message
               /\ added[1].data[1] = actorId
               /\ \A i \in 2..Len(added) : added[i].action # CombatAction.Message
               /\ \/ added[1].data[3] \in opponents
                  \/ added[1].data[2] = "Fortify" /\ added[1].data[3] = actorId

\* C20: a character that was scheduled but is defeated when its turn
\* comes does nothing and emits no event; so does a living character with
\* no living opponent, and the record and the players stay as they are
\* until the evaluation; a turn that does act is aimed at a living member
\* of the opposing party (or, for Fortify, at the actor itself).
C20_SkippedActions ==
    [][/\ TurnAsClaimed(combat, combat', sim, events, events')
       /\ (sim.pc = "act" /\ events' = events) => players' = players
       /\ page.at = "replaying" =>
             TurnAsClaimed(replay, replay', csim, cevents, cevents')]_vars

\* the turn of a character defeated earlier in the round is due, and the
\* next in the order is alive but has no living opponent left
C20_Witness ==
    /\ sim.pc = "act" /\ Len(sim.order) >= 2
    /\ ~IsAlive(combat.characters[sim.order[1]])
    /\ IsAlive(combat.characters[sim.order[2]])
    /\ AliveIn(combat, 1 - combat.characters[sim.order[2]].combatPartyId) = {}

\* a record without its transient fields: no chance, no effects list
Stripped(rec) ==
    [rec EXCEPT !.chance = NoChance,
                !.characters = [id \in DOMAIN rec.characters |->
                                  [rec.characters[id] EXCEPT !.effects = Absent]]]

\* C21: what the page decodes from getCompressedCombat(c) is c without
\* chance and without the effects lists and otherwise equal to c, for the
\* roster the server started from and for the record startCombat
\* returned; the call leaves c as it was.
C21_Lossless ==
    /\ roster # NoCombat =>
          /\ decompress(getCompressedCombat(roster)) = Stripped(roster)
          /\ decompress(getCompressedCombat(combat)) = Stripped(combat)
    /\ (page.at = "scheduled" /\ SameRoster) => replay = Stripped(roster)
    /\ (page.at = "scheduled" /\ PostCombat) => replay = Stripped(combat)

\* C22: in the record either builder hands to startCombat every
\* combatId of characters has an ante entry with a gold and an xp, pets
\* included.
C22_DefinedAnte ==
    roster # NoCombat =>
       \A id \in Ids(roster) :
          id \in DOMAIN roster.ante /\ roster.ante[id].defined

\* the page was opened on a parameter that does not decode
DecodeFailed == page.at # "created" /\ ~CanDecompress(page.combatData)

\* C24: a page whose parameter does not decompress or parse goes to /home
\* and stays there: beginCombat is not scheduled, no simulator exists, no
\* message is shown and isLoaded stays false. A page whose parameter
\* decodes schedules beginCombat, which runs, and runs once: the
\* simulator is constructed and begun from the scheduled page only and a
\* replaying page is never begun again.
C24_DecodeFailure ==
    /\ [](DecodeFailed <=> page.at = "home")
    /\ [](page.at = "home" =>
            /\ csim = IdleSim /\ replay = NoCombat /\ cevents = <<>>
            /\ page.combatMessages = <<>> /\ page.summaryMessages = <<>>
            /\ ~page.isLoaded)
    /\ [][/\ page.at = "home" =>
               page' = page /\ csim' = csim /\ replay' = replay /\ cevents' = cevents
          /\ (csim.pc = "idle" /\ csim' # csim) =>
               /\ page.at = "scheduled" /\ page'.at = "replaying"
               /\ replay' = NewSimulator(replay)
          /\ page.at = "replaying" =>
               /\ page'.at = "replaying" /\ csim'.pc # "idle"
               /\ csim'.round >= csim.round
               /\ page'.combatData = page.combatData]_vars
    /\ ((page.at = "scheduled") ~> (page.at = "replaying" /\ csim.pc # "idle"))

\* the server has fought a combat with messages and the page, opened on a
\* parameter that does not decode, is at /home
C24_Witness ==
    /\ page.at = "home" /\ page.combatData = Garbage
    /\ ServerDone /\ Cardinality(Messages(events)) > 0

\* the monsters of a roster: the members of party 1 of a monster combat
MonstersOf(rec) ==
    IF PlayersOf(rec, 1) = {} THEN MembersOf(rec, 1) ELSE {}

\* C25: every monster of a roster handed to the simulator has every stat
\* at 10 or more, HP at level * 100 + 1 or more, and maxStats equal to
\* stats, stat for stat, whatever the level and the base monster, the
\* fallback included.
C25_MonsterStats ==
    roster # NoCombat =>
       \A id \in MonstersOf(roster) :
          LET monster == roster.characters[id]
          IN /\ \A stat \in StatNames : monster.stats[stat] >= 10
             /\ monster.stats.HP >= monster.level * 100 + 1
             /\ DOMAIN monster.maxStats = DOMAIN monster.stats
             /\ \A stat \in DOMAIN monster.stats :
                   monster.maxStats[stat] = monster.stats[stat]

\* a roster with the fallback monster at level 2, at exactly 201 HP and
\* every other stat at the floor, next to a monster of level 1
C25_Witness ==
    /\ roster # NoCombat
    /\ \E id \in MonstersOf(roster) :
          /\ roster.characters[id].level = 2
          /\ roster.characters[id].stats.HP = 201
          /\ \A stat \in StatNames \ {"HP"} : roster.characters[id].stats[stat] = 10
    /\ \E id \in MonstersOf(roster) : roster.characters[id].level = 1

\* C23: a GiveScroll message for a guild that exists adds the scroll to
\* the inventory of every member of the guild that is a known player, as
\* shareScroll does, and raises no FindItem event for it; every other
\* name's inventory and events stay as they are.
C23_GiveScrollShares ==
    [][(/\ lastOp'.operation = GuildChannelOperation.GiveScroll
        /\ guilds[lastOp'.guildName].exists) =>
          /\ inventory' = shareScroll(inventory, guilds, players,
                                      lastOp'.guildName, lastOp'.payload)
          /\ raised' = raised
          /\ \A m \in MemberNames :
                (m \in guilds[lastOp'.guildName].members /\ IsPlayer(players, m))
                   => inventory'[m] = Append(inventory[m], lastOp'.payload)]_vars

====
